---- MODULE Spec2Model ----
(***************************************************************************)
(* Lifecycle and graceful shutdown of Dgraph Zero, modelled from           *)
(* dgraph/cmd/zero/run.go: run() (the main goroutine), the goroutine of    *)
(* serveGRPC, the signal-handling goroutine and the shutdown goroutine.    *)
(*                                                                         *)
(* Collaborators whose code is outside run.go are modelled by their        *)
(* contract: z.Closer (a WaitGroup plus a cancellable context), the HTTP   *)
(* serve goroutine of startListenHttpAndHttps, the Raft node's Run loop,   *)
(* the Raft store's background task, x.RunVlogGC, and package os/signal    *)
(* (Notify, Stop, the default disposition of SIGINT/SIGTERM).              *)
(***************************************************************************)
EXTENDS Integers, Sequences, FiniteSets, TLC

\* ------------------------------------------------------------------ bounds

\* Termination signals the environment may send to the process.
MaxSignals == 3
\* Programmatic closer.Signal() calls made from outside the signal goroutine.
MaxProg == 2

\* const timeout = 5 * time.Second, in seconds.
timeout == 5

\* Capacity of sdCh: make(chan os.Signal, 1).
sdChCap == 1

\* --------------------------------------------------------------- variables

VARIABLES
    mainPc,        \* position of run() on the main goroutine
    exit,          \* "none" while the process lives, else how it ended
    grpcListener,  \* "unbound" | "open" | "closed"
    httpListener,  \* "unbound" | "open" | "closed"
    kv,            \* badger handle: "unopened" | "open" | "closed"
    kvCloseCalls,  \* number of kv.Close() calls
    closer,        \* st.zero.closer: [running, closed]
    nodeCloser,    \* st.node.closer
    storeCloser,   \* store.Closer
    gcCloser,      \* gcCloser
    grpcPc,        \* goroutine of serveGRPC (run.go:184-204)
    gsPc,          \* goroutine calling s.GracefulStop() (run.go:193-196)
    elapsed,       \* seconds since time.After(timeout) was armed
    stopCalls,     \* number of s.Stop() calls
    outcome,       \* which case of the select was taken
    gsAt,          \* value of elapsed when GracefulStop returned, -1 before
    serveEndedBy,  \* why s.Serve returned: "none", "close" (listener closed),
                   \* "early" (on its own, no stop requested yet), "self"
    httpPc,        \* HTTP serve goroutine
    httpEndedBy,   \* the same for the HTTP serve loop
    nodePc,        \* Raft node Run loop
    storePc,       \* Raft store background task
    gcPc,          \* x.RunVlogGC goroutine
    sdCh,          \* buffered contents of the signal channel
    sdClosed,      \* close(sdCh) has run
    subscribed,    \* signal.Notify(sdCh, ...) is in effect
    coordPc,       \* signal-handling goroutine (run.go:368-383)
    sigCnt,        \* its local counter
    seqPc,         \* shutdown goroutine (run.go:387-406)
    began,         \* teardown steps begun, in order
    ended,         \* teardown steps completed, in order
    snapshots,     \* number of trySnapshot calls
    snapResult,    \* "none" | "ok" | "failed"
    closeErrs,     \* listeners whose Close() in the teardown returned an error
    coordRequests, \* closer.Signal() calls made by the signal goroutine
    seqStarts,     \* times the shutdown goroutine passed HasBeenClosed
    sent,          \* signals sent to the process so far
    progCalls,     \* programmatic closer.Signal() calls so far
    secondLate,    \* the 2nd signal was sent after the 1st had made the signal
                   \* goroutine call closer.Signal(), teardown in progress
    thirdLate,     \* the 3rd signal was sent after the 1st had done so,
                   \* teardown unfinished
    \* cmd/gossamer/main.go, gossamerAction:
    gPc,           \* position of gossamerAction, "idle" when it is not run
    arguments,     \* len(ctx.Args())
    failing,       \* the calls that return an error if they are made
    initialized,   \* the node's databases are initialized
    initChecked,   \* what dot.NodeInitialized(cfg) returned: "none" before
    calls,         \* the functions called so far, in order
    retErr         \* "none", or the step whose error gossamerAction returned

vars == <<mainPc, exit, grpcListener, httpListener, kv, kvCloseCalls, closer,
          nodeCloser, storeCloser, gcCloser, grpcPc, gsPc, elapsed, stopCalls,
          outcome, gsAt, serveEndedBy, httpPc, httpEndedBy, nodePc, storePc,
          gcPc, sdCh,
          sdClosed, subscribed, coordPc, sigCnt, seqPc, began, ended,
          snapshots, snapResult, closeErrs, coordRequests, seqStarts, sent, progCalls,
          secondLate, thirdLate,
          gPc, arguments, failing, initialized, initChecked, calls, retErr>>

\* Groups used by UNCHANGED.
mainVars == <<mainPc>>
resVars == <<grpcListener, httpListener, kv, kvCloseCalls>>
closerVars == <<closer, nodeCloser, storeCloser, gcCloser>>
grpcVars == <<grpcPc, gsPc, elapsed, stopCalls, outcome, gsAt, serveEndedBy>>
taskVars == <<httpPc, httpEndedBy, nodePc, storePc, gcPc>>
sigVars == <<sdCh, sdClosed, subscribed, coordPc, sigCnt, coordRequests, sent,
             secondLate, thirdLate>>
seqVars == <<seqPc, began, ended, snapshots, snapResult, closeErrs, seqStarts>>
gossamerVars == <<gPc, arguments, failing, initialized, initChecked, calls, retErr>>
zeroVars == <<mainVars, exit, resVars, closerVars, grpcVars, taskVars, sigVars,
              seqVars, progCalls>>

\* ------------------------------------------------------------- z.Closer

\* z.NewCloser(initial): a WaitGroup holding `initial` units, context live.
NewCloser(initial) == [running |-> initial, closed |-> FALSE]

\* Closer.AddRunning(delta): WaitGroup.Add(delta).
AddRunning(c, delta) == [c EXCEPT !.running = @ + delta]

\* Closer.Done(): WaitGroup.Done().
Done(c) == [c EXCEPT !.running = @ - 1]

\* Closer.Signal(): cancel the context; a second call changes nothing.
Signal(c) == [c EXCEPT !.closed = TRUE]

\* <-Closer.HasBeenClosed() can proceed.
HasBeenClosed(c) == c.closed

\* Closer.Wait() can return: WaitGroup.Wait() returns at count zero.
WaitReturns(c) == c.running = 0

Alive == exit = "none"

\* The six teardown steps of the shutdown goroutine, in program order.
Steps == <<1, 2, 3, 4, 5, 6>>

\* ------------------------------------------------------------------- Init

\* The process at the entry of run(): nothing bound, opened or started.
ZeroInit ==
    /\ mainPc = "config"
    /\ exit = "none"
    /\ grpcListener = "unbound"
    /\ httpListener = "unbound"
    /\ kv = "unopened"
    /\ kvCloseCalls = 0
    /\ closer = NewCloser(0)
    /\ nodeCloser = NewCloser(0)
    /\ storeCloser = NewCloser(0)
    /\ gcCloser = NewCloser(0)
    /\ grpcPc = "none"
    /\ gsPc = "none"
    /\ elapsed = 0
    /\ stopCalls = 0
    /\ outcome = "none"
    /\ gsAt = -1
    /\ serveEndedBy = "none"
    /\ httpPc = "none"
    /\ httpEndedBy = "none"
    /\ nodePc = "none"
    /\ storePc = "none"
    /\ gcPc = "none"
    /\ sdCh = <<>>
    /\ sdClosed = FALSE
    /\ subscribed = FALSE
    /\ coordPc = "none"
    /\ sigCnt = 0
    /\ seqPc = "none"
    /\ began = <<>>
    /\ ended = <<>>
    /\ snapshots = 0
    /\ snapResult = "none"
    /\ closeErrs = {}
    /\ coordRequests = 0
    /\ seqStarts = 0
    /\ sent = 0
    /\ progCalls = 0
    /\ secondLate = FALSE
    /\ thirdLate = FALSE

\* The zero process alone: gossamerAction is not run.
Init ==
    /\ ZeroInit
    /\ gPc = "idle"
    /\ arguments = 0
    /\ failing = {}
    /\ initialized = FALSE
    /\ initChecked = "none"
    /\ calls = <<>>
    /\ retErr = "none"

\* ------------------------------------------------- run(): startup, in order

\* A fatal startup error: log.Fatalf / x.Check / x.Fatalf end the process with
\* status 1 at once; deferred calls do not run.
Fatal ==
    /\ exit' = "1"
    /\ UNCHANGED <<mainVars, resVars, closerVars, grpcVars, taskVars, sigVars,
                   seqVars, progCalls>>

\* run.go:241-268: idx, enterprise_license, replicas, rebalance_interval.
MainConfig ==
    /\ Alive /\ mainPc = "config"
    /\ \E valid \in BOOLEAN :
         IF valid
         THEN /\ mainPc' = "listenGrpc"
              /\ UNCHANGED <<exit, resVars, closerVars, grpcVars, taskVars,
                             sigVars, seqVars, progCalls>>
         ELSE Fatal
    /\ UNCHANGED gossamerVars

\* run.go:282-283: grpcListener, err := setupListener(...); x.Check(err).
MainListenGrpc ==
    /\ Alive /\ mainPc = "listenGrpc"
    /\ \E bound \in BOOLEAN :
         IF bound
         THEN /\ mainPc' = "listenHttp"
              /\ grpcListener' = "open"
              /\ UNCHANGED <<exit, httpListener, kv, kvCloseCalls, closerVars,
                             grpcVars, taskVars, sigVars, seqVars, progCalls>>
         ELSE Fatal
    /\ UNCHANGED gossamerVars

\* A run() that does not check the error of the HTTP bind.
MainListenHttpUnchecked ==
    /\ Alive /\ mainPc = "listenHttp"
    /\ \E bound \in BOOLEAN :
         /\ mainPc' = "options"
         /\ httpListener' = IF bound THEN "open" ELSE "unbound"
         /\ UNCHANGED <<exit, grpcListener, kv, kvCloseCalls, closerVars,
                        grpcVars, taskVars, sigVars, seqVars, progCalls>>
    /\ UNCHANGED gossamerVars

\* run.go:284-285: httpListener, err := setupListener(...); x.Check(err).
MainListenHttp ==
    /\ Alive /\ mainPc = "listenHttp"
    /\ \E bound \in BOOLEAN :
         IF bound
         THEN /\ mainPc' = "options"
              /\ httpListener' = "open"
              /\ UNCHANGED <<exit, grpcListener, kv, kvCloseCalls, closerVars,
                             grpcVars, taskVars, sigVars, seqVars, progCalls>>
         ELSE Fatal
    /\ UNCHANGED gossamerVars

\* run.go:287-329: cache size and percentages, WAL directory, badger options.
MainOptions ==
    /\ Alive /\ mainPc = "options"
    /\ \E valid \in BOOLEAN :
         IF valid
         THEN /\ mainPc' = "openKv"
              /\ UNCHANGED <<exit, resVars, closerVars, grpcVars, taskVars,
                             sigVars, seqVars, progCalls>>
         ELSE Fatal
    /\ UNCHANGED gossamerVars

\* A run() that starts the value-log GC goroutine before it checks the error
\* of badger.OpenManaged.
MainOpenKvGcFirst ==
    /\ Alive /\ mainPc = "openKv"
    /\ gcCloser' = NewCloser(1)
    /\ gcPc' = "running"
    /\ \E opened \in BOOLEAN :
         IF opened
         THEN /\ mainPc' = "startGc"
              /\ kv' = "open"
              /\ UNCHANGED exit
         ELSE /\ exit' = "1"
              /\ UNCHANGED <<mainPc, kv>>
    /\ UNCHANGED <<grpcListener, httpListener, kvCloseCalls, closer, nodeCloser,
                   storeCloser, grpcVars, httpPc, httpEndedBy, nodePc, storePc,
                   sigVars, seqVars, progCalls>>
    /\ UNCHANGED gossamerVars

\* run.go:332-334: kv, err := badger.OpenManaged(kvOpt); x.Checkf; defer kv.Close().
MainOpenKv ==
    /\ Alive /\ mainPc = "openKv"
    /\ \E opened \in BOOLEAN :
         IF opened
         THEN /\ mainPc' = "startGc"
              /\ kv' = "open"
              /\ UNCHANGED <<exit, grpcListener, httpListener, kvCloseCalls,
                             closerVars, grpcVars, taskVars, sigVars, seqVars,
                             progCalls>>
         ELSE Fatal
    /\ UNCHANGED gossamerVars

\* run.go:336-340: gcCloser := z.NewCloser(1); go x.RunVlogGC(kv, gcCloser);
\* defer gcCloser.SignalAndWait(); store := raftwal.Init(kv, ...).
MainStartGc ==
    /\ Alive /\ mainPc = "startGc"
    /\ mainPc' = "serveGrpc"
    /\ gcCloser' = NewCloser(1)
    /\ gcPc' = "running"
    /\ storeCloser' = NewCloser(1)
    /\ storePc' = "running"
    /\ UNCHANGED <<exit, resVars, closer, nodeCloser, grpcVars, httpPc,
                   httpEndedBy, nodePc, sigVars, seqVars, progCalls>>
    /\ UNCHANGED gossamerVars

\* run.go:344, 152-205: st.serveGRPC(grpcListener, store). The TLS load may be
\* fatal (161-162); otherwise the node's closer is made (176), st.zero.Init()
\* makes the top-level closer with two units, grpc and http (178), and the
\* serve goroutine is started (184).
MainServeGRPC ==
    /\ Alive /\ mainPc = "serveGrpc"
    /\ \E tlsOk \in BOOLEAN :
         IF tlsOk
         THEN /\ mainPc' = "loadTls"
              /\ nodeCloser' = NewCloser(1)
              /\ closer' = NewCloser(2)
              /\ grpcPc' = "serving"
              /\ UNCHANGED <<exit, resVars, storeCloser, gcCloser, gsPc,
                             elapsed, stopCalls, outcome, gsAt, serveEndedBy,
                             taskVars, sigVars, seqVars, progCalls>>
         ELSE Fatal
    /\ UNCHANGED gossamerVars

\* run.go:345-346: tlsCfg, err := x.LoadServerTLSConfig(...); x.Check(err).
MainLoadTls ==
    /\ Alive /\ mainPc = "loadTls"
    /\ \E tlsOk \in BOOLEAN :
         IF tlsOk
         THEN /\ mainPc' = "startHttp"
              /\ UNCHANGED <<exit, resVars, closerVars, grpcVars, taskVars,
                             sigVars, seqVars, progCalls>>
         ELSE Fatal
    /\ UNCHANGED gossamerVars

\* run.go:347: st.startListenHttpAndHttps(httpListener, tlsCfg) starts the
\* HTTP serve goroutine.
MainStartHttp ==
    /\ Alive /\ mainPc = "startHttp"
    /\ mainPc' = "startNode"
    /\ httpPc' = "serving"
    /\ UNCHANGED <<exit, resVars, closerVars, grpcVars, httpEndedBy, nodePc,
                   storePc, gcPc, sigVars, seqVars, progCalls>>
    /\ UNCHANGED gossamerVars

\* run.go:358: x.Check(st.node.initAndStartNode()) starts the node's Run loop.
MainStartNode ==
    /\ Alive /\ mainPc = "startNode"
    /\ \E started \in BOOLEAN :
         IF started
         THEN /\ mainPc' = "notify"
              /\ nodePc' = "running"
              /\ UNCHANGED <<exit, resVars, closerVars, grpcVars, httpPc,
                             httpEndedBy, storePc, gcPc, sigVars, seqVars,
                             progCalls>>
         ELSE Fatal
    /\ UNCHANGED gossamerVars

\* run.go:364-368: sdCh := make(chan os.Signal, 1); signal.Notify(sdCh, ...);
\* go func() { for sig := range sdCh ... }().
MainNotify ==
    /\ Alive /\ mainPc = "notify"
    /\ mainPc' = "addRunning"
    /\ subscribed' = TRUE
    /\ coordPc' = "recv"
    /\ UNCHANGED <<exit, resVars, closerVars, grpcVars, taskVars, sdCh,
                   sdClosed, sigCnt, coordRequests, sent, secondLate,
                   thirdLate, seqVars, progCalls>>
    /\ UNCHANGED gossamerVars

\* A run() that forgets the unit of the shutdown goroutine.
MainAddRunningOmitted ==
    /\ Alive /\ mainPc = "addRunning"
    /\ mainPc' = "goSeq"
    /\ UNCHANGED <<exit, resVars, closerVars, grpcVars, taskVars, sigVars,
                   seqVars, progCalls>>
    /\ UNCHANGED gossamerVars

\* run.go:385: st.zero.closer.AddRunning(1).
MainAddRunning ==
    /\ Alive /\ mainPc = "addRunning"
    /\ mainPc' = "goSeq"
    /\ closer' = AddRunning(closer, 1)
    /\ UNCHANGED <<exit, resVars, nodeCloser, storeCloser, gcCloser, grpcVars,
                   taskVars, sigVars, seqVars, progCalls>>
    /\ UNCHANGED gossamerVars

\* run.go:387: go func() { defer st.zero.closer.Done(); ... }().
MainGoShutdown ==
    /\ Alive /\ mainPc = "goSeq"
    /\ mainPc' = "wait"
    /\ seqPc' = "blocked"
    /\ UNCHANGED <<exit, resVars, closerVars, grpcVars, taskVars, sigVars,
                   began, ended, snapshots, snapResult,
                   closeErrs, seqStarts, progCalls>>
    /\ UNCHANGED gossamerVars

\* A run() that closes the store without waiting for the closer.
MainWaitSkipped ==
    /\ Alive /\ mainPc = "wait"
    /\ mainPc' = "kvClose"
    /\ UNCHANGED <<exit, resVars, closerVars, grpcVars, taskVars, sigVars,
                   seqVars, progCalls>>
    /\ UNCHANGED gossamerVars

\* run.go:409-410: st.zero.closer.Wait().
MainWait ==
    /\ Alive /\ mainPc = "wait"
    /\ WaitReturns(closer)
    /\ mainPc' = "kvClose"
    /\ UNCHANGED <<exit, resVars, closerVars, grpcVars, taskVars, sigVars,
                   seqVars, progCalls>>
    /\ UNCHANGED gossamerVars

\* run.go:412-413: err = kv.Close().
MainKvClose ==
    /\ Alive /\ mainPc = "kvClose"
    /\ mainPc' = "deferGcSignal"
    /\ kv' = "closed"
    /\ kvCloseCalls' = kvCloseCalls + 1
    /\ UNCHANGED <<exit, grpcListener, httpListener, closerVars, grpcVars,
                   taskVars, sigVars, seqVars, progCalls>>
    /\ UNCHANGED gossamerVars

\* run.go:338 at return: deferred gcCloser.SignalAndWait(), the Signal half.
MainDeferGcSignal ==
    /\ Alive /\ mainPc = "deferGcSignal"
    /\ mainPc' = "deferGcWait"
    /\ gcCloser' = Signal(gcCloser)
    /\ UNCHANGED <<exit, resVars, closer, nodeCloser, storeCloser, grpcVars,
                   taskVars, sigVars, seqVars, progCalls>>
    /\ UNCHANGED gossamerVars

\* run.go:338 at return: deferred gcCloser.SignalAndWait(), the Wait half.
MainDeferGcWait ==
    /\ Alive /\ mainPc = "deferGcWait"
    /\ WaitReturns(gcCloser)
    /\ mainPc' = "deferKvClose"
    /\ UNCHANGED <<exit, resVars, closerVars, grpcVars, taskVars, sigVars,
                   seqVars, progCalls>>
    /\ UNCHANGED gossamerVars

\* run.go:334 at return: deferred kv.Close(); run() returns and the process
\* exits with status 0.
MainDeferKvClose ==
    /\ Alive /\ mainPc = "deferKvClose"
    /\ mainPc' = "returned"
    /\ kv' = "closed"
    /\ kvCloseCalls' = kvCloseCalls + 1
    /\ exit' = "0"
    /\ UNCHANGED <<grpcListener, httpListener, closerVars, grpcVars, taskVars,
                   sigVars, seqVars, progCalls>>
    /\ UNCHANGED gossamerVars

\* ------------------------------------- serveGRPC's goroutine (run.go:184-204)

\* A serve goroutine that calls closer.Done() as soon as Serve returns, and
\* again by its defer.
GrpcServeReturnsReleases ==
    /\ Alive /\ grpcPc = "serving"
    /\ \E self \in BOOLEAN :
         /\ self \/ grpcListener = "closed"
         /\ serveEndedBy' = IF grpcListener = "closed" THEN "close"
                            ELSE IF closer.closed THEN "self" ELSE "early"
    /\ closer' = Done(closer)
    /\ grpcListener' = "closed"
    /\ grpcPc' = "select"
    /\ gsPc' = "draining"
    /\ elapsed' = 0
    /\ UNCHANGED <<mainVars, exit, httpListener, kv, kvCloseCalls, nodeCloser,
                   storeCloser, gcCloser, stopCalls, outcome, gsAt, taskVars,
                   sigVars, seqVars, progCalls>>
    /\ UNCHANGED gossamerVars

\* run.go:186-199: s.Serve(l) returns, because the listener was closed or on
\* its own; Serve closes the listener it was given. The goroutine logs, starts
\* the goroutine that calls s.GracefulStop(), arms time.After(timeout) and
\* blocks in the select.
GrpcServeReturns ==
    /\ Alive /\ grpcPc = "serving"
    /\ \E self \in BOOLEAN :
         /\ self \/ grpcListener = "closed"
         /\ serveEndedBy' = IF grpcListener = "closed" THEN "close"
                            ELSE IF closer.closed THEN "self" ELSE "early"
    /\ grpcListener' = "closed"
    /\ grpcPc' = "select"
    /\ gsPc' = "draining"
    /\ elapsed' = 0
    /\ UNCHANGED <<mainVars, exit, httpListener, kv, kvCloseCalls, closerVars,
                   stopCalls, outcome, gsAt, taskVars, sigVars, seqVars,
                   progCalls>>
    /\ UNCHANGED gossamerVars

\* A timer armed with one second instead of `timeout`.
TickFiresEarly ==
    /\ Alive /\ grpcPc = "select"
    /\ elapsed < timeout
    /\ elapsed' = elapsed + 1
    /\ grpcPc' = "forced" /\ outcome' = "forced"
    /\ UNCHANGED <<mainVars, exit, resVars, closerVars, gsPc, stopCalls, gsAt,
                   serveEndedBy, taskVars, sigVars, seqVars, progCalls>>
    /\ UNCHANGED gossamerVars

\* run.go:199: one second passes while the select is blocked; when the armed
\* timer reaches `timeout` its channel delivers and the select takes that case.
Tick ==
    /\ Alive /\ grpcPc = "select"
    /\ elapsed < timeout
    /\ elapsed' = elapsed + 1
    /\ IF elapsed' = timeout
       THEN grpcPc' = "forced" /\ outcome' = "forced"
       ELSE UNCHANGED <<grpcPc, outcome>>
    /\ UNCHANGED <<mainVars, exit, resVars, closerVars, gsPc, stopCalls, gsAt,
                   serveEndedBy, taskVars, sigVars, seqVars, progCalls>>
    /\ UNCHANGED gossamerVars

\* run.go:193-198: the pending RPCs finish, s.GracefulStop() returns and
\* close(done) runs; a select still blocked takes the <-done case.
GracefulStopReturns ==
    /\ Alive /\ gsPc = "draining"
    /\ gsPc' = "returned"
    /\ gsAt' = elapsed
    /\ IF grpcPc = "select"
       THEN grpcPc' = "graceful" /\ outcome' = "graceful"
       ELSE UNCHANGED <<grpcPc, outcome>>
    /\ UNCHANGED <<mainVars, exit, resVars, closerVars, elapsed, stopCalls,
                   serveEndedBy, taskVars, sigVars, seqVars, progCalls>>
    /\ UNCHANGED gossamerVars

\* run.go:200-202: the timeout case logs and calls s.Stop().
GrpcForceStop ==
    /\ Alive /\ grpcPc = "forced"
    /\ stopCalls' = stopCalls + 1
    /\ grpcPc' = "return"
    /\ UNCHANGED <<mainVars, exit, resVars, closerVars, gsPc, elapsed, outcome,
                   gsAt, serveEndedBy, taskVars, sigVars, seqVars, progCalls>>
    /\ UNCHANGED gossamerVars

\* run.go:185: the goroutine returns; deferred st.zero.closer.Done().
GrpcDone ==
    /\ Alive /\ grpcPc \in {"graceful", "return"}
    /\ closer' = Done(closer)
    /\ grpcPc' = "done"
    /\ UNCHANGED <<mainVars, exit, resVars, nodeCloser, storeCloser, gcCloser,
                   gsPc, elapsed, stopCalls, outcome, gsAt, serveEndedBy,
                   taskVars, sigVars, seqVars, progCalls>>
    /\ UNCHANGED gossamerVars

\* ------------------------------------------------ collaborating goroutines

\* startListenHttpAndHttps: go func() { defer st.zero.closer.Done();
\* m.Serve() }(): Serve returns when the listener is closed, or on its own.
HttpServeReturns ==
    /\ Alive /\ httpPc = "serving"
    /\ \E self \in BOOLEAN :
         /\ self \/ httpListener = "closed"
         /\ httpEndedBy' = IF httpListener = "closed" THEN "close"
                           ELSE IF closer.closed THEN "self" ELSE "early"
    /\ closer' = Done(closer)
    /\ httpPc' = "done"
    /\ UNCHANGED <<mainVars, exit, resVars, nodeCloser, storeCloser, gcCloser,
                   grpcVars, nodePc, storePc, gcPc, sigVars, seqVars,
                   progCalls>>
    /\ UNCHANGED gossamerVars

\* The node's Run loop sees its closer closed and calls Done().
NodeExit ==
    /\ Alive /\ nodePc = "running"
    /\ HasBeenClosed(nodeCloser)
    /\ nodeCloser' = Done(nodeCloser)
    /\ nodePc' = "stopped"
    /\ UNCHANGED <<mainVars, exit, resVars, closer, storeCloser, gcCloser,
                   grpcVars, httpPc, httpEndedBy, storePc, gcPc, sigVars,
                   seqVars, progCalls>>
    /\ UNCHANGED gossamerVars

\* The store's background task sees its closer closed and calls Done().
StoreExit ==
    /\ Alive /\ storePc = "running"
    /\ HasBeenClosed(storeCloser)
    /\ storeCloser' = Done(storeCloser)
    /\ storePc' = "stopped"
    /\ UNCHANGED <<mainVars, exit, resVars, closer, nodeCloser, gcCloser,
                   grpcVars, httpPc, httpEndedBy, nodePc, gcPc, sigVars,
                   seqVars, progCalls>>
    /\ UNCHANGED gossamerVars

\* x.RunVlogGC sees gcCloser closed and calls Done().
GcExit ==
    /\ Alive /\ gcPc = "running"
    /\ HasBeenClosed(gcCloser)
    /\ gcCloser' = Done(gcCloser)
    /\ gcPc' = "stopped"
    /\ UNCHANGED <<mainVars, exit, resVars, closer, nodeCloser, storeCloser,
                   grpcVars, httpPc, httpEndedBy, nodePc, storePc, sigVars,
                   seqVars, progCalls>>
    /\ UNCHANGED gossamerVars

\* A component of the server calls st.zero.closer.Signal() itself.
ProgrammaticSignal ==
    /\ Alive /\ grpcPc # "none"
    /\ progCalls < MaxProg
    /\ progCalls' = progCalls + 1
    /\ closer' = Signal(closer)
    /\ UNCHANGED <<mainVars, exit, resVars, nodeCloser, storeCloser, gcCloser,
                   grpcVars, taskVars, sigVars, seqVars>>
    /\ UNCHANGED gossamerVars

\* ------------------------------------------------------------ os/signal

\* The environment sends SIGINT or SIGTERM to the process.
\*   not subscribed (before Notify, after Stop): the default action, the
\*     process is terminated by the signal;
\*   subscribed: a non-blocking send on sdCh: buffered if there is room,
\*     dropped if not, and a panic (send on closed channel) once sdCh is closed.
SendSignal ==
    /\ Alive /\ sent < MaxSignals
    /\ sent' = sent + 1
    /\ secondLate' = (secondLate \/ (sent = 1 /\ coordRequests = 1
                                      /\ seqStarts = 1 /\ seqPc # "done"))
    /\ thirdLate' = (thirdLate \/ (sent = 2 /\ coordRequests = 1 /\ seqPc # "done"))
    /\ CASE ~subscribed ->
              exit' = "killed" /\ UNCHANGED sdCh
         [] subscribed /\ sdClosed ->
              exit' = "panic" /\ UNCHANGED sdCh
         [] subscribed /\ ~sdClosed /\ Len(sdCh) < sdChCap ->
              sdCh' = Append(sdCh, "sig") /\ UNCHANGED exit
         [] OTHER ->
              UNCHANGED <<sdCh, exit>>
    /\ UNCHANGED <<mainVars, resVars, closerVars, grpcVars, taskVars, sdClosed,
                   subscribed, coordPc, sigCnt, coordRequests, seqVars,
                   progCalls>>
    /\ UNCHANGED gossamerVars

\* ------------------------------- signal-handling goroutine (run.go:368-383)

\* run.go:370-372: for sig := range sdCh { log; sigCnt++.
CoordRecv ==
    /\ Alive /\ coordPc = "recv"
    /\ sdCh # <<>>
    /\ sdCh' = Tail(sdCh)
    /\ sigCnt' = sigCnt + 1
    /\ coordPc' = "branch"
    /\ UNCHANGED <<mainVars, exit, resVars, closerVars, grpcVars, taskVars,
                   sdClosed, subscribed, coordRequests, sent, secondLate,
                   thirdLate, seqVars, progCalls>>
    /\ UNCHANGED gossamerVars

\* run.go:373-374: if sigCnt == 1 { signal.Stop(sdCh).
CoordStop ==
    /\ Alive /\ coordPc = "branch"
    /\ sigCnt = 1
    /\ subscribed' = FALSE
    /\ coordPc' = "signal"
    /\ UNCHANGED <<mainVars, exit, resVars, closerVars, grpcVars, taskVars,
                   sdCh, sdClosed, sigCnt, coordRequests, sent, secondLate,
                   thirdLate, seqVars, progCalls>>
    /\ UNCHANGED gossamerVars

\* run.go:375: st.zero.closer.Signal().
CoordSignal ==
    /\ Alive /\ coordPc = "signal"
    /\ closer' = Signal(closer)
    /\ coordRequests' = coordRequests + 1
    /\ coordPc' = "recv"
    /\ UNCHANGED <<mainVars, exit, resVars, nodeCloser, storeCloser, gcCloser,
                   grpcVars, taskVars, sdCh, sdClosed, subscribed, sigCnt,
                   sent, secondLate, thirdLate, seqVars, progCalls>>
    /\ UNCHANGED gossamerVars

\* run.go:376-381: else if sigCnt == 3 { log; os.Exit(1) } else { log }.
CoordLater ==
    /\ Alive /\ coordPc = "branch"
    /\ sigCnt # 1
    /\ IF sigCnt = 3
       THEN exit' = "1" /\ UNCHANGED coordPc
       ELSE coordPc' = "recv" /\ UNCHANGED exit
    /\ UNCHANGED <<mainVars, resVars, closerVars, grpcVars, taskVars, sdCh,
                   sdClosed, subscribed, sigCnt, coordRequests, sent,
                   secondLate, thirdLate, seqVars, progCalls>>
    /\ UNCHANGED gossamerVars

\* run.go:370: the range loop ends once sdCh is closed and drained.
CoordEnd ==
    /\ Alive /\ coordPc = "recv"
    /\ sdCh = <<>> /\ sdClosed
    /\ coordPc' = "ended"
    /\ UNCHANGED <<mainVars, exit, resVars, closerVars, grpcVars, taskVars,
                   sdCh, sdClosed, subscribed, sigCnt, coordRequests, sent,
                   secondLate, thirdLate, seqVars, progCalls>>
    /\ UNCHANGED gossamerVars

\* ------------------------------------- shutdown goroutine (run.go:387-406)

\* A shutdown goroutine that does not wait for HasBeenClosed.
SeqStartUnprompted ==
    /\ Alive /\ seqPc = "blocked"
    /\ seqStarts' = seqStarts + 1
    /\ sdClosed' = TRUE
    /\ seqPc' = "httpClose"
    /\ UNCHANGED <<mainVars, exit, resVars, closerVars, grpcVars, taskVars,
                   sdCh, subscribed, coordPc, sigCnt, coordRequests, sent,
                   secondLate, thirdLate, began, ended, snapshots, snapResult,
                   closeErrs,
                   progCalls>>
    /\ UNCHANGED gossamerVars

\* run.go:389-391: <-st.zero.closer.HasBeenClosed(); log; close(sdCh).
SeqStart ==
    /\ Alive /\ seqPc = "blocked"
    /\ HasBeenClosed(closer)
    /\ seqStarts' = seqStarts + 1
    /\ sdClosed' = TRUE
    /\ seqPc' = "httpClose"
    /\ UNCHANGED <<mainVars, exit, resVars, closerVars, grpcVars, taskVars,
                   sdCh, subscribed, coordPc, sigCnt, coordRequests, sent,
                   secondLate, thirdLate, began, ended, snapshots, snapResult,
                   closeErrs,
                   progCalls>>
    /\ UNCHANGED gossamerVars

\* A shutdown goroutine that takes the snapshot right after closing the HTTP
\* listener, before the node is stopped.
SeqHttpCloseThenSnapshot ==
    /\ Alive /\ seqPc = "httpClose"
    /\ httpListener' = "closed"
    /\ began' = Append(began, 1)
    /\ ended' = Append(ended, 1)
    /\ seqPc' = "snapshot"
    /\ UNCHANGED <<mainVars, exit, grpcListener, kv, kvCloseCalls, closerVars,
                   grpcVars, taskVars, sigVars, snapshots, snapResult,
                   closeErrs,
                   seqStarts, progCalls>>
    /\ UNCHANGED gossamerVars

\* A shutdown goroutine that closes both listeners first.
SeqCloseBothListeners ==
    /\ Alive /\ seqPc = "httpClose"
    /\ httpListener' = "closed"
    /\ grpcListener' = "closed"
    /\ began' = Append(began, 1)
    /\ ended' = Append(ended, 1)
    /\ seqPc' = "nodeSignal"
    /\ UNCHANGED <<mainVars, exit, kv, kvCloseCalls, closerVars, grpcVars,
                   taskVars, sigVars, snapshots, snapResult,
                   closeErrs, seqStarts,
                   progCalls>>
    /\ UNCHANGED gossamerVars

\* run.go:395: _ = httpListener.Close()  (step 1); the error is discarded.
SeqHttpClose ==
    /\ Alive /\ seqPc = "httpClose"
    /\ httpListener' = "closed"
    /\ \E err \in BOOLEAN :
         closeErrs' = IF err THEN closeErrs \cup {"http"} ELSE closeErrs
    /\ began' = Append(began, 1)
    /\ ended' = Append(ended, 1)
    /\ seqPc' = "nodeSignal"
    /\ UNCHANGED <<mainVars, exit, grpcListener, kv, kvCloseCalls, closerVars,
                   grpcVars, taskVars, sigVars, snapshots, snapResult,
                   seqStarts, progCalls>>
    /\ UNCHANGED gossamerVars

\* run.go:397: st.node.closer.SignalAndWait(), the Signal half  (step 2 begins).
SeqNodeSignal ==
    /\ Alive /\ seqPc = "nodeSignal"
    /\ nodeCloser' = Signal(nodeCloser)
    /\ began' = Append(began, 2)
    /\ seqPc' = "nodeWait"
    /\ UNCHANGED <<mainVars, exit, resVars, closer, storeCloser, gcCloser,
                   grpcVars, taskVars, sigVars, ended, snapshots, snapResult,
                   closeErrs,
                   seqStarts, progCalls>>
    /\ UNCHANGED gossamerVars

\* st.node.closer.Signal() in place of SignalAndWait(): no wait.
SeqNodeWaitSkipped ==
    /\ Alive /\ seqPc = "nodeWait"
    /\ ended' = Append(ended, 2)
    /\ seqPc' = "snapshot"
    /\ UNCHANGED <<mainVars, exit, resVars, closerVars, grpcVars, taskVars,
                   sigVars, began, snapshots, snapResult,
                   closeErrs, seqStarts,
                   progCalls>>
    /\ UNCHANGED gossamerVars

\* run.go:397: st.node.closer.SignalAndWait(), the Wait half  (step 2 ends).
SeqNodeWait ==
    /\ Alive /\ seqPc = "nodeWait"
    /\ WaitReturns(nodeCloser)
    /\ ended' = Append(ended, 2)
    /\ seqPc' = "snapshot"
    /\ UNCHANGED <<mainVars, exit, resVars, closerVars, grpcVars, taskVars,
                   sigVars, began, snapshots, snapResult,
                   closeErrs, seqStarts,
                   progCalls>>
    /\ UNCHANGED gossamerVars

\* A shutdown goroutine that gives up the teardown when the snapshot fails.
SeqSnapshotReturnsOnFailure ==
    /\ Alive /\ seqPc = "snapshot"
    /\ snapshots' = snapshots + 1
    /\ \E ok \in BOOLEAN :
         /\ snapResult' = IF ok THEN "ok" ELSE "failed"
         /\ seqPc' = IF ok THEN "storeSignal" ELSE "return"
    /\ began' = Append(began, 3)
    /\ ended' = Append(ended, 3)
    /\ UNCHANGED <<mainVars, exit, resVars, closerVars, grpcVars, taskVars,
                   sigVars, closeErrs, seqStarts, progCalls>>
    /\ UNCHANGED gossamerVars

\* run.go:399: st.node.trySnapshot(0); it returns nothing, failure is logged
\* (step 3).
SeqSnapshot ==
    /\ Alive /\ seqPc = "snapshot"
    /\ snapshots' = snapshots + 1
    /\ \E ok \in BOOLEAN : snapResult' = IF ok THEN "ok" ELSE "failed"
    /\ began' = Append(began, 3)
    /\ ended' = Append(ended, 3)
    /\ seqPc' = "storeSignal"
    /\ UNCHANGED <<mainVars, exit, resVars, closerVars, grpcVars, taskVars,
                   sigVars, closeErrs, seqStarts, progCalls>>
    /\ UNCHANGED gossamerVars

\* run.go:401: store.Closer.SignalAndWait(), the Signal half  (step 4 begins).
SeqStoreSignal ==
    /\ Alive /\ seqPc = "storeSignal"
    /\ storeCloser' = Signal(storeCloser)
    /\ began' = Append(began, 4)
    /\ seqPc' = "storeWait"
    /\ UNCHANGED <<mainVars, exit, resVars, closer, nodeCloser, gcCloser,
                   grpcVars, taskVars, sigVars, ended, snapshots, snapResult,
                   closeErrs,
                   seqStarts, progCalls>>
    /\ UNCHANGED gossamerVars

\* run.go:401: store.Closer.SignalAndWait(), the Wait half  (step 4 ends).
SeqStoreWait ==
    /\ Alive /\ seqPc = "storeWait"
    /\ WaitReturns(storeCloser)
    /\ ended' = Append(ended, 4)
    /\ seqPc' = "grpcClose"
    /\ UNCHANGED <<mainVars, exit, resVars, closerVars, grpcVars, taskVars,
                   sigVars, began, snapshots, snapResult,
                   closeErrs, seqStarts,
                   progCalls>>
    /\ UNCHANGED gossamerVars

\* run.go:403: _ = grpcListener.Close()  (step 5); the error is discarded. The
\* close of a listener that Serve has closed already returns an error.
SeqGrpcClose ==
    /\ Alive /\ seqPc = "grpcClose"
    /\ grpcListener' = "closed"
    /\ \E err \in BOOLEAN :
         /\ grpcListener = "closed" => err
         /\ closeErrs' = IF err THEN closeErrs \cup {"grpc"} ELSE closeErrs
    /\ began' = Append(began, 5)
    /\ ended' = Append(ended, 5)
    /\ seqPc' = "removeCid"
    /\ UNCHANGED <<mainVars, exit, httpListener, kv, kvCloseCalls, closerVars,
                   grpcVars, taskVars, sigVars, snapshots, snapResult,
                   seqStarts, progCalls>>
    /\ UNCHANGED gossamerVars

\* run.go:405: x.RemoveCidFile()  (step 6).
SeqRemoveCid ==
    /\ Alive /\ seqPc = "removeCid"
    /\ began' = Append(began, 6)
    /\ ended' = Append(ended, 6)
    /\ seqPc' = "return"
    /\ UNCHANGED <<mainVars, exit, resVars, closerVars, grpcVars, taskVars,
                   sigVars, snapshots, snapResult,
                   closeErrs, seqStarts, progCalls>>
    /\ UNCHANGED gossamerVars

\* run.go:388: the goroutine returns; deferred st.zero.closer.Done().
SeqDone ==
    /\ Alive /\ seqPc = "return"
    /\ closer' = Done(closer)
    /\ seqPc' = "done"
    /\ UNCHANGED <<mainVars, exit, resVars, nodeCloser, storeCloser, gcCloser,
                   grpcVars, taskVars, sigVars, began, ended, snapshots,
                   snapResult, closeErrs, seqStarts, progCalls>>
    /\ UNCHANGED gossamerVars

\* ---------------------------------------------------------- specification

Next ==
    \/ MainConfig \/ MainListenGrpc \/ MainListenHttp \/ MainOptions
    \/ MainOpenKv \/ MainStartGc \/ MainServeGRPC \/ MainLoadTls
    \/ MainStartHttp \/ MainStartNode \/ MainNotify \/ MainAddRunning
    \/ MainGoShutdown \/ MainWait \/ MainKvClose \/ MainDeferGcSignal
    \/ MainDeferGcWait \/ MainDeferKvClose
    \/ GrpcServeReturns \/ Tick \/ GracefulStopReturns \/ GrpcForceStop
    \/ GrpcDone
    \/ HttpServeReturns \/ NodeExit \/ StoreExit \/ GcExit
    \/ ProgrammaticSignal \/ SendSignal
    \/ CoordRecv \/ CoordStop \/ CoordSignal \/ CoordLater \/ CoordEnd
    \/ SeqStart \/ SeqHttpClose \/ SeqNodeSignal \/ SeqNodeWait
    \/ SeqSnapshot \/ SeqStoreSignal \/ SeqStoreWait \/ SeqGrpcClose
    \/ SeqRemoveCid \/ SeqDone

Spec == Init /\ [][Next]_vars

\* ------------------------------------------------------------ properties

IsPrefix(s, t) == Len(s) <= Len(t) /\ s = SubSeq(t, 1, Len(s))

\* run() is past st.zero.closer.Wait().
PastWait ==
    mainPc \in {"kvClose", "deferGcSignal", "deferGcWait", "deferKvClose",
                "returned"}

\* s.GracefulStop() returned before the timeout elapsed.
DrainedInTime == gsAt # -1 /\ gsAt < timeout

\* C1: the shutdown goroutine runs its six steps (close the HTTP listener,
\* signal-and-wait the node's closer, try the snapshot, signal-and-wait the
\* store's closer, close the RPC listener, remove the identity file) in that
\* order: the steps begun and the steps completed are each a prefix of
\* 1..6, at most one step is in progress, and a signal-and-wait step counts
\* as completed only once the closer it waits on has no unit left.
C1_StepsInOrder ==
    /\ IsPrefix(began, Steps)
    /\ IsPrefix(ended, Steps)
    /\ Len(ended) <= Len(began)
    /\ Len(began) <= Len(ended) + 1
    /\ (Len(ended) >= 2 => nodePc = "stopped" /\ WaitReturns(nodeCloser))
    /\ (Len(ended) >= 4 => storePc = "stopped" /\ WaitReturns(storeCloser))

\* A live process whose shutdown goroutine has completed all six steps.
C1_Witness == Alive /\ ended = Steps

\* C2 as stated: the phases occur in the order Running, StopRequested,
\* DrainingRPC, StoppingConsensus, Snapshotting, StoppingStorage, Closed; the
\* RPC drain is over (graceful stop completed or timeout elapsed) before the
\* node's stop begins.
C2_DrainBeforeConsensus ==
    /\ (Len(began) >= 2 => closer.closed /\ outcome # "none")
    /\ (Len(began) >= 3 => Len(ended) >= 2)
    /\ (Len(began) >= 4 => Len(ended) >= 3)
    /\ (PastWait => Len(ended) >= 4)

\* C2 amended: the phases occur in the order Running, StopRequested,
\* StoppingConsensus, Snapshotting, StoppingStorage, DrainingRPC, Closed: the
\* node's stop begins only after a stop request, the snapshot only after the
\* node's stop completed, the store's stop only after the snapshot returned,
\* an RPC drain set off by the shutdown goroutine's closing of the RPC
\* listener only after the store's stop completed, and Wait() returns only
\* after the drain was decided and the store's stop completed.
C2_PhaseOrder ==
    /\ (Len(began) >= 2 => closer.closed)
    /\ (Len(began) >= 3 => Len(ended) >= 2)
    /\ (Len(began) >= 4 => Len(ended) >= 3)
    /\ (serveEndedBy = "close" => Len(ended) >= 4)
    /\ (PastWait => outcome # "none" /\ Len(ended) >= 4)

\* Wait() has returned in a run whose RPC drain was set off by the shutdown
\* goroutine.
C2_Witness == Alive /\ PastWait /\ serveEndedBy = "close"

\* C3: once Wait() on the top-level closer has returned, the running count
\* is zero, the RPC goroutine, the HTTP goroutine and the shutdown goroutine
\* have each called Done(), and all six teardown steps are complete.
C3_WaitOnlyAtZero ==
    PastWait =>
        /\ closer.running = 0
        /\ grpcPc = "done"
        /\ httpPc = "done"
        /\ seqPc = "done"
        /\ ended = Steps

\* Wait() has just returned.
C3_Witness == Alive /\ mainPc = "kvClose"

\* C4: the signal goroutine issues at most one shutdown request, the
\* teardown starts at most once and never before a stop was requested, and
\* no shutdown request, first or repeated, raises an error.
C4_OneShutdownNoError ==
    /\ coordRequests <= 1
    /\ seqStarts <= 1
    /\ (seqStarts > 0 => closer.closed)
    /\ exit # "panic"

\* C5: a second termination signal, sent after the first has made the signal
\* goroutine request the shutdown and while the teardown is in progress, is
\* ignored: no second request is issued and the process keeps running until
\* it ends with status 0.
C5_SecondSignalIgnored ==
    (secondLate /\ sent = 2) => (coordRequests = 1 /\ exit \in {"none", "0"})

\* C6: a third termination signal, sent when the first has started the
\* shutdown and the teardown is unfinished, ends the process with status 1.
C6_ThirdSignalExitsOne == thirdLate => exit = "1"

\* C7: s.Stop() is called at most once, only by the timeout case and only
\* when the full timeout has elapsed since the select began; it is never
\* called when GracefulStop returned before the timeout elapsed, and it has
\* been called once when the goroutine finishes without that.
C7_GracefulOrForced ==
    /\ stopCalls <= 1
    /\ (outcome # "none" => serveEndedBy # "none")
    /\ (outcome = "forced" => elapsed = timeout)
    /\ (stopCalls = 1 => outcome = "forced")
    /\ (DrainedInTime => stopCalls = 0 /\ outcome = "graceful")
    /\ (grpcPc = "done" /\ ~DrainedInTime => stopCalls = 1)

\* The RPC goroutine has finished after a forced stop.
C7_Witness == Alive /\ grpcPc = "done" /\ outcome = "forced" /\ stopCalls = 1

\* C8: at most one snapshot attempt is made, only when the node's closer
\* has fully stopped; the store's closer is signalled and kv.Close() is
\* called only after that attempt returned; a finished teardown has made
\* exactly one attempt.
C8_OneSnapshotThenStorage ==
    /\ snapshots <= 1
    /\ (snapshots = 1 =>
            nodeCloser.closed /\ WaitReturns(nodeCloser) /\ nodePc = "stopped")
    /\ (storeCloser.closed => snapshots = 1 /\ Len(ended) >= 3)
    /\ (kvCloseCalls > 0 => snapshots = 1 /\ Len(ended) >= 3)
    /\ (seqPc = "done" => snapshots = 1)

\* kv.Close() has been called after the one snapshot attempt.
C8_Witness == kvCloseCalls > 0 /\ snapshots = 1 /\ snapResult # "none"

\* C9: whenever kv.Close() has been called, Wait() had returned and the
\* shutdown goroutine had finished: no teardown step is in progress or still
\* to come.
C9_KvClosedAfterTeardown ==
    (kvCloseCalls > 0 \/ kv = "closed") =>
        /\ PastWait
        /\ seqPc = "done"
        /\ began = Steps
        /\ ended = Steps

\* kv.Close() at run.go:412 has run.
C9_Witness == Alive /\ kv = "closed" /\ kvCloseCalls = 1

\* C10: Wait() on the top-level closer returns only after Signal() was
\* called on it, also when both serve loops ended on their own beforehand.
C10_WaitAfterSignal == PastWait => closer.closed

\* Wait() has returned in a run in which the RPC accept loop and the HTTP
\* serve loop both ended on their own before any stop request.
C10_Witness ==
    Alive /\ PastWait /\ serveEndedBy = "early" /\ httpEndedBy = "early"

\* Auxiliary: the signal goroutine never counts a third signal, so its
\* os.Exit(1) branch (run.go:376-378) is never taken: signal.Stop(sdCh) runs
\* while handling the first signal and sdCh buffers at most one more.
SigCntAtMostTwo == sigCnt <= 2

\* C11: once shutdown has begun (the signal goroutine has requested it and
\* the teardown has started) and no signal escalation occurs (fewer than
\* three signals are sent), the process ends in one way only: all six
\* teardown steps complete, Wait() has returned, the storage handle is
\* closed and the exit status is 0.
C11_ShutdownEndsWithZero ==
    (coordRequests = 1 /\ seqStarts = 1 /\ sent < 3 /\ ~Alive) =>
        (exit = "0" /\ ended = Steps /\ PastWait /\ kv = "closed")

\* The steps of run() that can end in a fatal startup error.
FatalSteps ==
    {"config", "listenGrpc", "listenHttp", "options", "openKv", "serveGrpc",
     "loadTls", "startNode"}

\* The process was ended by a fatal startup error; mainPc tells at which step.
Aborted == exit = "1" /\ mainPc \in FatalSteps

\* C12 as stated: at the moment of any fatal startup error no RPC serve
\* task, storage GC task, HTTP serve task or signal task has been started.
C12_NoTaskAtAbort ==
    Aborted =>
        gcPc = "none" /\ grpcPc = "none" /\ httpPc = "none" /\ coordPc = "none"

\* C12 amended: a fatal error in the configuration, a socket bind, the
\* options or the storage open aborts before any background task is started;
\* a failed TLS load in serveGRPC aborts with the GC task running, a failed
\* TLS load at run.go:345 also with the RPC serve task started, a failed node
\* start also with the HTTP serve task started; the signal task and the
\* shutdown task are never started at a fatal startup error.
C12_TasksAtAbort ==
    exit = "1" =>
        /\ mainPc \in FatalSteps
        /\ coordPc = "none" /\ seqPc = "none"
        /\ (mainPc \in {"config", "listenGrpc", "listenHttp", "options", "openKv"}
                => gcPc = "none" /\ grpcPc = "none" /\ httpPc = "none")
        /\ (mainPc = "serveGrpc"
                => gcPc = "running" /\ grpcPc = "none" /\ httpPc = "none")
        /\ (mainPc = "loadTls"
                => gcPc = "running" /\ grpcPc # "none" /\ httpPc = "none")
        /\ (mainPc = "startNode"
                => gcPc = "running" /\ grpcPc # "none" /\ httpPc # "none")

\* The node failed to start: the abort finds three tasks started.
C12_Witness == Aborted /\ mainPc = "startNode" /\ gcPc = "running"

\* C13 as stated: at the moment of any fatal startup error neither the RPC
\* listener nor the HTTP listener has been bound.
C13_NoListenerAtAbort ==
    Aborted => grpcListener = "unbound" /\ httpListener = "unbound"

\* C13 amended: every fatal startup error ends the process with status 1;
\* no listener is bound only for a configuration error of run.go:241-268 or
\* a failed RPC bind; a failed HTTP bind aborts with the RPC listener bound
\* and every later fatal error aborts with both listeners bound.
C13_ListenersAtAbort ==
    exit = "1" =>
        /\ mainPc \in FatalSteps
        /\ (mainPc \in {"config", "listenGrpc"}
                => grpcListener = "unbound" /\ httpListener = "unbound")
        /\ (mainPc = "listenHttp"
                => grpcListener = "open" /\ httpListener = "unbound")
        /\ (mainPc \in {"options", "openKv", "serveGrpc", "loadTls", "startNode"}
                => grpcListener # "unbound" /\ httpListener # "unbound")

\* The storage open failed with both listeners bound.
C13_Witness ==
    Aborted /\ mainPc = "openKv" /\ grpcListener = "open" /\ httpListener = "open"

\* C14: a server goroutine is started only when both listeners are bound;
\* a failed bind aborts with no server started; past the binds run() never
\* holds a partial listener set.
C14_ListenersBeforeServers ==
    /\ (grpcPc # "none" \/ httpPc # "none"
            => grpcListener # "unbound" /\ httpListener # "unbound")
    /\ (Aborted /\ mainPc \in {"listenGrpc", "listenHttp"}
            => grpcPc = "none" /\ httpPc = "none")
    /\ (mainPc \notin {"config", "listenGrpc", "listenHttp"}
            => grpcListener # "unbound" /\ httpListener # "unbound")

\* Both servers serve on their two bound listeners.
C14_Witness ==
    /\ Alive /\ grpcPc = "serving" /\ httpPc = "serving"
    /\ grpcListener = "open" /\ httpListener = "open"

\* C15 as stated: each listener is closed by the shutdown goroutine only,
\* during the teardown and never before a stop is requested.
C15_ClosedOnlyByTeardown ==
    /\ httpListener = "closed" => closer.closed /\ Len(ended) >= 1
    /\ grpcListener = "closed" => closer.closed /\ Len(ended) >= 5

\* C15 amended: the shutdown goroutine closes each listener once, in the
\* teardown and only after a stop was requested, and the HTTP listener is
\* closed by it alone; the RPC listener is closed earlier if and only if
\* Serve returned on its own (Serve closes its listener), which can happen
\* before any stop is requested, and the teardown's close then returns an
\* error; a close under a blocked accept loop makes Serve return and start
\* the stop protocol, and the only panic is that of a signal sent on the
\* closed signal channel.
C15_ListenerCloses ==
    /\ IsPrefix(began, Steps)
    /\ Len(began) >= 1 => closer.closed
    /\ httpListener = "closed" <=> Len(ended) >= 1
    /\ grpcListener = "closed" <=> (Len(ended) >= 5 \/ serveEndedBy # "none")
    /\ serveEndedBy = "close" => Len(ended) >= 5 /\ gsPc # "none"
    /\ (serveEndedBy \in {"early", "self"} /\ Len(ended) >= 5)
            => "grpc" \in closeErrs
    /\ exit = "panic" => sdClosed /\ subscribed

\* The teardown closed both listeners without error; the accept loop, blocked
\* until then, returned and finished its stop protocol.
C15_Witness ==
    /\ Alive /\ serveEndedBy = "close" /\ grpcPc = "done"
    /\ httpListener = "closed" /\ closeErrs = {}

\* C16: a failed close of the HTTP listener, a failed snapshot or a failed
\* close of the RPC listener never stops or reorders the teardown: the steps
\* run in order, each failure leaves the goroutine at its next step, and the
\* goroutine returns (deferred Done()) only with all six steps completed.
C16_FailuresDoNotStopTeardown ==
    /\ IsPrefix(began, Steps) /\ IsPrefix(ended, Steps)
    /\ "http" \in closeErrs => Len(ended) >= 1 /\ seqPc # "httpClose"
    /\ snapResult = "failed" => Len(ended) >= 3 /\ seqPc # "snapshot"
    /\ "grpc" \in closeErrs => Len(ended) >= 5 /\ seqPc # "grpcClose"
    /\ seqPc \in {"return", "done"} => ended = Steps
    /\ seqPc = "done" <=> (seqStarts = 1 /\ ended = Steps /\ seqPc # "return")

\* All three best-effort steps failed and the goroutine has called Done().
C16_Witness ==
    /\ Alive /\ seqPc = "done" /\ ended = Steps
    /\ snapResult = "failed" /\ closeErrs = {"http", "grpc"}

\* Running units of st.zero.closer still held: one by the RPC serve goroutine
\* and one by the HTTP one until each has called Done(), and one by the
\* shutdown goroutine from AddRunning(1) until its Done().
UnitsHeld ==
    (IF grpcPc = "done" THEN 0 ELSE 1) + (IF httpPc = "done" THEN 0 ELSE 1)
        + (IF mainPc \in {"goSeq", "wait"} \/ PastWait
           THEN (IF seqPc = "done" THEN 0 ELSE 1) ELSE 0)

\* C17: the RPC serve goroutine holds one running unit of the top-level
\* closer and releases it once, only after Serve has returned and the stop
\* protocol has resolved (GracefulStop returned, or the timeout elapsed and
\* Stop() was called); the end of the accept loop by itself neither requests
\* a shutdown nor ends the process with an error: with no signal sent, the
\* process ends with status 0 or by a fatal error of a later startup step.
C17_OneUnitReleasedAfterStop ==
    /\ grpcPc # "none" => closer.running = UnitsHeld
    /\ grpcPc = "done" => serveEndedBy # "none" /\ outcome # "none"
    /\ (grpcPc = "done" /\ outcome = "graceful") => gsPc = "returned"
    /\ (grpcPc = "done" /\ outcome = "forced")
            => elapsed = timeout /\ stopCalls = 1
    /\ closer.closed => progCalls > 0 \/ coordRequests > 0
    /\ (serveEndedBy # "none" /\ sent = 0 /\ exit # "none")
            => exit = "0" \/ (exit = "1" /\ mainPc \in {"loadTls", "startNode"})

\* Serve returned on its own, the stop was forced at the timeout and the unit
\* was released, with no shutdown requested.
C17_Witness ==
    /\ Alive /\ grpcPc = "done" /\ serveEndedBy = "early"
    /\ outcome = "forced" /\ ~closer.closed

\* C18: no termination signal is delivered to the signal channel after the
\* shutdown goroutine has closed it (a send on the closed channel panics),
\* whether the shutdown was requested by a signal or programmatically.
C18_NoSignalOnClosedChannel == exit # "panic"

\* C19: when kv.Close() is first called, the consensus node, the store's
\* closer, both listeners and the value-log GC task (gcCloser.SignalAndWait()
\* has returned) have all stopped.
C19_KvClosedLast ==
    kvCloseCalls >= 1 =>
        /\ nodePc = "stopped" /\ storePc = "stopped"
        /\ httpListener = "closed" /\ grpcListener = "closed"
        /\ gcPc = "stopped" /\ gcCloser.closed /\ gcCloser.running = 0

\* C20: on every path of run() that opens the storage handle, Close() is
\* called on it at most once before the process exits.
C20_KvClosedAtMostOnce == kvCloseCalls <= 1

\* ------------------------------- cmd/gossamer/main.go: gossamerAction

\* Largest number of command arguments tried.
MaxArgs == 1

\* The functions gossamerAction calls, in the order of the source.
GossamerCalls ==
    <<"startLogger", "createDotConfig", "NodeInitialized", "InitNode",
      "LoadKeystore", "unlockKeystore", "NewNode", "Start">>

\* Those that return an error.
Failable ==
    {"startLogger", "createDotConfig", "InitNode", "LoadKeystore",
     "unlockKeystore", "NewNode"}

\* gossamerAction is entered with some arguments, on a data directory that is
\* initialized or not, in an environment where some of the calls would fail.
GossamerInit ==
    /\ ZeroInit
    /\ gPc = "arguments"
    /\ arguments \in 0..MaxArgs
    /\ failing \in SUBSET Failable
    /\ initialized \in BOOLEAN
    /\ initChecked = "none"
    /\ calls = <<>>
    /\ retErr = "none"

\* f(...) is called; `if err != nil { log.Error(...); return err }`, else the
\* function goes on at `next`.
CallChecked(f, next) ==
    /\ calls' = Append(calls, f)
    /\ IF f \in failing
       THEN gPc' = "returned" /\ retErr' = f
       ELSE gPc' = next /\ UNCHANGED retErr

\* main.go:103-105: unknown command arguments are an error.
CheckArguments ==
    /\ gPc = "arguments"
    /\ IF arguments > 0
       THEN gPc' = "returned" /\ retErr' = "arguments"
       ELSE gPc' = "startLogger" /\ UNCHANGED retErr
    /\ UNCHANGED <<arguments, failing, initialized, initChecked, calls, zeroVars>>

\* main.go:108-112: err := startLogger(ctx).
StartLogger ==
    /\ gPc = "startLogger"
    /\ CallChecked("startLogger", "createDotConfig")
    /\ UNCHANGED <<arguments, failing, initialized, initChecked, zeroVars>>

\* main.go:116-124: cfg, err := createDotConfig(ctx); then utils.ExpandDir.
CreateDotConfig ==
    /\ gPc = "createDotConfig"
    /\ CallChecked("createDotConfig", "NodeInitialized")
    /\ UNCHANGED <<arguments, failing, initialized, initChecked, zeroVars>>

\* main.go:127: if !dot.NodeInitialized(cfg) { ... }.
NodeInitialized ==
    /\ gPc = "NodeInitialized"
    /\ calls' = Append(calls, "NodeInitialized")
    /\ initChecked' = IF initialized THEN "yes" ELSE "no"
    /\ gPc' = IF initialized THEN "LoadKeystore" ELSE "InitNode"
    /\ UNCHANGED <<arguments, failing, initialized, retErr, zeroVars>>

\* main.go:129-135: log.Warn; err = dot.InitNode(cfg).
InitNode ==
    /\ gPc = "InitNode"
    /\ CallChecked("InitNode", "LoadKeystore")
    /\ initialized' = ("InitNode" \notin failing)
    /\ UNCHANGED <<arguments, failing, initChecked, zeroVars>>

\* main.go:138-142: ks, err := keystore.LoadKeystore(cfg.Account.Key).
LoadKeystore ==
    /\ gPc = "LoadKeystore"
    /\ CallChecked("LoadKeystore", "unlockKeystore")
    /\ UNCHANGED <<arguments, failing, initialized, initChecked, zeroVars>>

\* An unlockKeystore whose error is logged but not returned.
UnlockKeystoreUnchecked ==
    /\ gPc = "unlockKeystore"
    /\ calls' = Append(calls, "unlockKeystore")
    /\ gPc' = "NewNode"
    /\ UNCHANGED <<arguments, failing, initialized, initChecked, retErr,
                   zeroVars>>

\* main.go:144-148: err = unlockKeystore(ks, ...).
UnlockKeystore ==
    /\ gPc = "unlockKeystore"
    /\ CallChecked("unlockKeystore", "NewNode")
    /\ UNCHANGED <<arguments, failing, initialized, initChecked, zeroVars>>

\* main.go:150-154: node, err := dot.NewNode(cfg, ks).
NewNode ==
    /\ gPc = "NewNode"
    /\ CallChecked("NewNode", "Start")
    /\ UNCHANGED <<arguments, failing, initialized, initChecked, zeroVars>>

\* main.go:156-161: log.Info; node.Start(); return nil.
NodeStart ==
    /\ gPc = "Start"
    /\ calls' = Append(calls, "Start")
    /\ gPc' = "returned"
    /\ UNCHANGED <<arguments, failing, initialized, initChecked, retErr,
                   zeroVars>>

GossamerNext ==
    \/ CheckArguments \/ StartLogger \/ CreateDotConfig \/ NodeInitialized
    \/ InitNode \/ LoadKeystore \/ UnlockKeystore \/ NewNode \/ NodeStart

GossamerSpec == GossamerInit /\ [][GossamerNext]_vars

\* f has been called.
Called(f) == \E i \in 1..Len(calls) : calls[i] = f

\* A sequence of calls without the conditional call of InitNode.
SkipInit(s) == SelectSeq(s, LAMBDA c : c # "InitNode")

====
